---------------------------- MODULE Spec2Model ----------------------------
(***************************************************************************)
(* A model of aiida_atoms/tracker.py: the serializer to_aiida_rep, the two *)
(* adapters wraps_ase_inplace / wraps_ase_out_of_place and AtomsTracker.   *)
(*                                                                         *)
(* Python objects with identity (ase.Atoms, orm nodes, AtomsTracker) live  *)
(* in three heaps, an object's identity being its index:                   *)
(*   heap      ase.Atoms objects  -> their value                           *)
(*   nodes     orm.StructureData  -> the structure they persist            *)
(*   trackers  AtomsTracker       -> [atoms, node, track_provenance]       *)
(* graph is the provenance graph of the engine: one record per executed    *)
(* calcfunction.                                                           *)
(***************************************************************************)
EXTENDS Integers, Sequences, FiniteSets, TLC

VARIABLES heap, nodes, trackers, graph, last, held, shadow, ncalls, ser, built

vars == <<heap, nodes, trackers, graph, last, held, shadow, ncalls, ser, built>>

(***************************************************************************)
(* Bounds of the model.                                                    *)
(***************************************************************************)
\* Calls made in a run: calls on trackers and constructor calls after the first.
MaxCalls == 3
\* Atoms of the structure the first tracker is built from.
MaxAtoms == 2
\* Atomic numbers a StructureData can represent: 1..MaxZ.
MaxZ == 1
\* Positional arguments of a call whose inputs are built.
MaxArgs == 11

Min(a, b) == IF a < b THEN a ELSE b

(***************************************************************************)
(* Python values.  A value is [type, val]; Bases(t) is the set of the      *)
(* classes of the isinstance chain that an instance of t is an instance    *)
(* of (bool is an int, an OrderedDict is a dict, a namedtuple is a tuple,  *)
(* numpy.float64 is a float; DictAtoms stands for a user class deriving    *)
(* from both dict and ase.Atoms).                                          *)
(***************************************************************************)
Bases(t) ==
  CASE t = "bool" -> {"bool", "int"}
    [] t = "OrderedDict" -> {"OrderedDict", "dict"}
    [] t = "namedtuple" -> {"namedtuple", "tuple"}
    [] t = "float64" -> {"float64", "float"}
    [] t = "DictAtoms" -> {"DictAtoms", "dict", "Atoms"}
    [] OTHER -> {t}

isinstance(pobj, cls) == cls \in Bases(pobj.type)

PyTypes ==
  {"dict", "OrderedDict", "list", "tuple", "namedtuple", "Atoms", "DictAtoms",
   "float", "float64", "int", "bool", "str", "ndarray",
   "NoneType", "slice", "set", "complex"}

Payloads == {<<0>>, <<1>>}

PyValues == [type : PyTypes, val : Payloads]

PyInt(i) == [type |-> "int", val |-> <<i>>]
PyList(i) == [type |-> "list", val |-> <<i>>]
PySlice(i) == [type |-> "slice", val |-> <<i>>]

\* list(pobj) of line 92: the same elements in a list.
PyListOf(pobj) == [type |-> "list", val |-> pobj.val]

\* The text conversion str(pobj) the fallback orm.Str(pobj) stores.
PyStr(pobj) ==
  IF isinstance(pobj, "str") THEN pobj
  ELSE [type |-> "str", val |-> <<pobj.type, pobj.val>>]

\* An orm data node of class cls holding value (under the array name key for
\* an ArrayData), with the number of warnings emitted while it was built.
OrmData(cls, key, value, nwarn) ==
  [cls |-> cls, key |-> key, value |-> value, warnings |-> nwarn]

\* A faulty serializer: the structure rule is tried first.
to_aiida_rep_AtomsFirst(pobj) ==
  IF isinstance(pobj, "Atoms") THEN OrmData("StructureData", "", pobj, 0)
  ELSE IF isinstance(pobj, "dict") THEN OrmData("Dict", "", pobj, 0)
  ELSE IF isinstance(pobj, "list") THEN OrmData("List", "", pobj, 0)
  ELSE IF isinstance(pobj, "tuple") THEN OrmData("List", "", PyListOf(pobj), 0)
  ELSE IF isinstance(pobj, "float") THEN OrmData("Float", "", pobj, 0)
  ELSE IF isinstance(pobj, "int") THEN OrmData("Int", "", pobj, 0)
  ELSE IF isinstance(pobj, "str") THEN OrmData("Str", "", pobj, 0)
  ELSE IF isinstance(pobj, "ndarray") THEN OrmData("ArrayData", "array", pobj, 0)
  ELSE OrmData("Str", "", PyStr(pobj), 1)

\* to_aiida_rep of lines 79-106: the isinstance chain, then the fallback.
to_aiida_rep(pobj) ==
  IF isinstance(pobj, "dict") THEN OrmData("Dict", "", pobj, 0)
  ELSE IF isinstance(pobj, "list") THEN OrmData("List", "", pobj, 0)
  ELSE IF isinstance(pobj, "tuple") THEN OrmData("List", "", PyListOf(pobj), 0)
  ELSE IF isinstance(pobj, "Atoms") THEN OrmData("StructureData", "", pobj, 0)
  ELSE IF isinstance(pobj, "float") THEN OrmData("Float", "", pobj, 0)
  ELSE IF isinstance(pobj, "int") THEN OrmData("Int", "", pobj, 0)
  ELSE IF isinstance(pobj, "str") THEN OrmData("Str", "", pobj, 0)
  ELSE IF isinstance(pobj, "ndarray") THEN OrmData("ArrayData", "array", pobj, 0)
  ELSE OrmData("Str", "", PyStr(pobj), 1)

(***************************************************************************)
(* Names (keyword names, input labels) are sequences of characters.        *)
(* ArgLabel(i) is f"arg_{i:02d}": the decimal digits of i, zero-padded on  *)
(* the left to a width of at least two.                                    *)
(***************************************************************************)
DigitChar(d) == <<"0", "1", "2", "3", "4", "5", "6", "7", "8", "9">>[d + 1]

RECURSIVE Decimal(_)
Decimal(i) == IF i < 10 THEN <<DigitChar(i)>>
              ELSE Append(Decimal(i \div 10), DigitChar(i % 10))

RECURSIVE ZeroPad(_, _)
ZeroPad(s, width) == IF Len(s) >= width THEN s ELSE ZeroPad(<<"0">> \o s, width)

ArgLabel(i) == <<"a", "r", "g", "_">> \o ZeroPad(Decimal(i), 2)

\* A call is [op, args, kwargs]: args a sequence of values, kwargs a
\* function from names to values.
NoKwargs == [k \in {} |-> 0]

\* aiida_kwargs of lines 22-24 and 55-57: the dict comprehension over the
\* keyword arguments, then one assignment per positional argument, which
\* overwrites an entry already stored under the same key.
aiida_kwargs(args, kwargs) ==
  LET labels == {ArgLabel(i - 1) : i \in 1..Len(args)}
      index(l) == CHOOSE i \in 1..Len(args) : ArgLabel(i - 1) = l
  IN  [key \in (DOMAIN kwargs) \cup labels |->
         IF key \in labels THEN to_aiida_rep(args[index(key)])
         ELSE to_aiida_rep(kwargs[key])]

(***************************************************************************)
(* ase.Atoms, as far as the adapters can tell structures apart: n atoms,   *)
(* all translated by pos, of atomic number num, and info, which stands for *)
(* what an Atoms object carries that a StructureData does not persist      *)
(* (info, constraints, momenta, the calculator): [n, pos, num, info].      *)
(***************************************************************************)
\* The name of the first parameter of each wrapped ase.Atoms method.
Param(op) ==
  CASE op = "translate" -> <<"d", "i", "s", "p", "l", "a", "c", "e", "m", "e", "n", "t">>
    [] op = "pop" -> <<"i">>
    [] op = "set_atomic_numbers" -> <<"n", "u", "m", "b", "e", "r", "s">>
    [] op = "repeat" -> <<"r", "e", "p">>
    [] op = "__getitem__" -> <<"i">>

\* func(atoms, *args, **kwargs) binds its first parameter ...
Bound(call) ==
  IF Len(call.args) = 1 THEN call.args[1] ELSE call.kwargs[Param(call.op)]

\* ... and raises TypeError unless exactly that parameter is given.
BindRaises(call) ==
  ~((Len(call.args) = 1 /\ DOMAIN call.kwargs = {})
    \/ (Len(call.args) = 0 /\ DOMAIN call.kwargs = {Param(call.op)}))

\* The library raises before it touches the structure: a malformed call, or
\* pop of an index that is out of range.
LibRaises(call, s) ==
  \/ BindRaises(call)
  \/ call.op = "pop" /\ Bound(call).val[1] >= s.n

\* The structure func leaves (in place) or returns (out of place).
LibApply(call, s) ==
  LET a == Bound(call).val[1]
  IN  CASE call.op = "translate" -> [s EXCEPT !.pos = @ + a]
        [] call.op = "pop" -> [s EXCEPT !.n = @ - 1]
        [] call.op = "set_atomic_numbers" -> [s EXCEPT !.num = a]
        [] call.op = "repeat" -> [s EXCEPT !.n = @ * a]
        [] call.op = "__getitem__" -> [s EXCEPT !.n = Min(@, a)]

(***************************************************************************)
(* orm.StructureData(ase=atoms) persists n, pos and num and raises for a   *)
(* structure it cannot represent: set_atomic_numbers takes any integer,    *)
(* the node's kinds are looked up in a table of MaxZ elements.             *)
(* node.get_ase() builds a new Atoms from what was persisted.              *)
(***************************************************************************)
StructureDataRaises(s) == s.num > MaxZ

StructureData(s) == [n |-> s.n, pos |-> s.pos, num |-> s.num]

get_ase(node) == [n |-> node.n, pos |-> node.pos, num |-> node.num, info |-> 0]

(***************************************************************************)
(* The adapters act on a world w = [heap, nodes, trackers, graph].         *)
(* AtomsTracker.__init__ (lines 112-126) adds a tracker to the world and   *)
(* yields [w, ret], ret the new tracker.  obj is an Atoms object when      *)
(* objIsAtoms and a node otherwise; atoms is 0 for None.  The Atoms object *)
(* that obj.get_ase() builds is new.                                       *)
(***************************************************************************)
AtomsTracker_init(w, objIsAtoms, obj, atoms, track) ==
  LET ret == Len(w.trackers) + 1
      add(w1, a, node) ==
        [w |-> [w1 EXCEPT !.trackers = Append(@, [atoms |-> a, node |-> node, track |-> track])],
         ret |-> ret]
  IN  IF objIsAtoms
      THEN add([w EXCEPT !.nodes = Append(@, StructureData(w.heap[obj]))],
               obj, Len(w.nodes) + 1)
      ELSE IF atoms = 0
           THEN add([w EXCEPT !.heap = Append(@, get_ase(w.nodes[obj]))],
                    Len(w.heap) + 1, obj)
           ELSE add(w, atoms, obj)

\* What _transform yields: the world it leaves, whether it raised, the node
\* it returns and how many times func ran in it.
Transformed(w, raised, node, applied) ==
  [w |-> w, raised |-> raised, node |-> node, applied |-> applied]

\* What a call on a tracker yields: ret is the tracker it returns (0: it raised).
Outcome(w, raised, ret, applied) ==
  [w |-> w, raised |-> raised, ret |-> ret, applied |-> applied]

\* A faulty _transform: func is applied twice.
inplace_transform_Twice(w, atoms, call) ==
  IF LibRaises(call, w.heap[atoms]) THEN Transformed(w, TRUE, 0, 1)
  ELSE LET w1 == [w EXCEPT !.heap[atoms] = LibApply(call, LibApply(call, @))]
       IN  IF StructureDataRaises(w1.heap[atoms]) THEN Transformed(w1, TRUE, 0, 2)
           ELSE Transformed([w1 EXCEPT !.nodes = Append(@, StructureData(w1.heap[atoms]))],
                            FALSE, Len(w1.nodes) + 1, 2)

\* _transform of lines 60-63: func mutates the Atoms object atoms, then the
\* object is wrapped into a new node.
inplace_transform(w, atoms, call) ==
  IF LibRaises(call, w.heap[atoms]) THEN Transformed(w, TRUE, 0, 1)
  ELSE LET w1 == [w EXCEPT !.heap[atoms] = LibApply(call, @)]
       IN  IF StructureDataRaises(w1.heap[atoms]) THEN Transformed(w1, TRUE, 0, 1)
           ELSE Transformed([w1 EXCEPT !.nodes = Append(@, StructureData(w1.heap[atoms]))],
                            FALSE, Len(w1.nodes) + 1, 1)

\* A faulty engine: the function runs, no link is recorded.
calcfunction_NoLink(out, name, node, kwargs) == out

\* calcfunction(_transform)(node, **aiida_kwargs): the engine runs the
\* function once and links its inputs to the node it returns.
calcfunction(out, name, node, kwargs) ==
  IF out.raised THEN out
  ELSE [out EXCEPT !.w.graph = @ \cup
          {[name |-> name, node |-> node, kwargs |-> kwargs, output |-> out.node]}]

\* A faulty adapter: the receiver keeps its node.
inplace_return_KeepNode(w, t, node) == [w |-> w, ret |-> t]

\* Lines 73-74: tracker.node = node; return tracker.
inplace_return(w, t, node) == [w |-> [w EXCEPT !.trackers[t].node = node], ret |-> t]

\* inner of lines 52-74, called on the tracker t.
inplace_inner(w, t, call) ==
  LET tracker == w.trackers[t]
      atoms == tracker.atoms
      kw == aiida_kwargs(call.args, call.kwargs)
      out == IF tracker.track
             THEN calcfunction(inplace_transform(w, atoms, call), call.op, tracker.node, kw)
             ELSE inplace_transform(w, atoms, call)
  IN  IF out.raised THEN Outcome(out.w, TRUE, 0, out.applied)
      ELSE LET r == inplace_return(out.w, t, out.node)
           IN  Outcome(r.w, FALSE, r.ret, out.applied)

\* _transform of lines 30-31: wraps the Atoms object new_atoms.
outofplace_transform(w, new_atoms) ==
  IF StructureDataRaises(w.heap[new_atoms]) THEN Transformed(w, TRUE, 0, 0)
  ELSE Transformed([w EXCEPT !.nodes = Append(@, StructureData(w.heap[new_atoms]))],
                   FALSE, Len(w.nodes) + 1, 0)

\* A faulty adapter: func runs on the receiver's cached Atoms.
outofplace_snapshot_Live(w, t) == w.heap[w.trackers[t].atoms]

\* Line 21: atoms = tracker.node.get_ase().
outofplace_snapshot(w, t) == get_ase(w.nodes[w.trackers[t].node])

\* A faulty adapter: the result is stored in the receiver, which is returned.
outofplace_return_Rebind(w, t, node, new_atoms) ==
  [w |-> [w EXCEPT !.trackers[t] = [atoms |-> new_atoms, node |-> node, track |-> @.track]],
   ret |-> t]

\* A faulty adapter: the new tracker is given the receiver's flag.
outofplace_return_InheritFlag(w, t, node, new_atoms) ==
  AtomsTracker_init(w, FALSE, node, new_atoms, w.trackers[t].track)

\* Line 40: return AtomsTracker(obj=node, atoms=new_atoms); track defaults
\* to True (line 116).
outofplace_return(w, t, node, new_atoms) ==
  AtomsTracker_init(w, FALSE, node, new_atoms, TRUE)

\* inner of lines 19-40, called on the tracker t: func runs on a snapshot
\* and returns the new object new_atoms.  An exception leaves nothing of the
\* call behind.
outofplace_inner(w, t, call) ==
  LET tracker == w.trackers[t]
      atoms == outofplace_snapshot(w, t)
      kw == aiida_kwargs(call.args, call.kwargs)
  IN  IF LibRaises(call, atoms) THEN Outcome(w, TRUE, 0, 1)
      ELSE LET w1 == [w EXCEPT !.heap = Append(@, LibApply(call, atoms))]
               new_atoms == Len(w1.heap)
               out == IF tracker.track
                      THEN calcfunction(outofplace_transform(w1, new_atoms),
                                        call.op, tracker.node, kw)
                      ELSE outofplace_transform(w1, new_atoms)
           IN  IF out.raised THEN Outcome(w, TRUE, 0, 1)
               ELSE LET r == outofplace_return(out.w, t, out.node, new_atoms)
                    IN  Outcome(r.w, FALSE, r.ret, 1)

(***************************************************************************)
(* The calls the model makes.                                              *)
(***************************************************************************)
Call(op, args, kwargs) == [op |-> op, args |-> args, kwargs |-> kwargs]

NoCall == Call("none", <<>>, NoKwargs)

InplaceCalls ==
  {Call("translate", <<PyList(1)>>, NoKwargs),
   Call("translate", <<>>, Param("translate") :> PyList(1)),
   Call("pop", <<PyInt(0)>>, NoKwargs),
   Call("set_atomic_numbers", <<PyInt(1)>>, NoKwargs),
   Call("set_atomic_numbers", <<PyInt(MaxZ + 1)>>, NoKwargs)}

OutOfPlaceCalls ==
  {Call("repeat", <<PyInt(2)>>, NoKwargs),
   Call("repeat", <<>>, NoKwargs),
   Call("__getitem__", <<PySlice(1)>>, NoKwargs)}

\* The structures the first tracker is built from: StructureData accepts them.
RawStructures == [n : {1, MaxAtoms}, pos : {0}, num : {1}, info : {0, 1}]

\* The keyword names and the values of the calls whose inputs are built.
KwNames ==
  {<<"a", "x", "i", "s">>, <<"a", "r", "g", "_", "0", "0">>, <<"a", "r", "g", "_", "1">>}

PositionalArgs(p) == [i \in 1..p |-> PyInt(i % 2)]

KeywordArgs(names) == [k \in names |-> [type |-> "str", val |-> <<Len(k)>>]]

(***************************************************************************)
(* State.  Besides the heaps and the graph:                                *)
(*   last    the last call, with the receiver as it was when the call was  *)
(*           made (recv 0: a constructor call);                            *)
(*   held    per tracker, the nodes it has held, in succession;            *)
(*   shadow  per tracker, the live structure and the persisted structure   *)
(*           of a twin run: the same constructions and calls, every        *)
(*           constructor given the opposite track flag;                    *)
(*   ncalls  the number of calls made so far;                              *)
(*   ser     a value and what to_aiida_rep made of it;                     *)
(*   built   the arguments of a call and the inputs built from them.       *)
(***************************************************************************)
World == [heap |-> heap, nodes |-> nodes, trackers |-> trackers, graph |-> graph]

Last(kind, recv, call, r, twinRaised) ==
  [kind |-> kind, recv |-> recv, ret |-> r.ret, call |-> call,
   raised |-> r.raised, applied |-> r.applied, twinRaised |-> twinRaised,
   preObj |-> trackers[recv].atoms, preVal |-> heap[trackers[recv].atoms],
   preNode |-> trackers[recv].node, preTrack |-> trackers[recv].track,
   nodesBefore |-> Len(nodes), added |-> r.w.graph \ graph]

LastNew(ret, s, track) ==
  [kind |-> "new", recv |-> 0, ret |-> ret, call |-> NoCall,
   raised |-> FALSE, applied |-> 0, twinRaised |-> FALSE,
   preObj |-> 0, preVal |-> s, preNode |-> 0, preTrack |-> track,
   nodesBefore |-> 0, added |-> {}]

\* The twin of a tracker, as a world of its own, and back.
ShadowWorld(sh) ==
  [heap |-> <<sh.val>>, nodes |-> <<sh.node>>, graph |-> {},
   trackers |-> <<[atoms |-> 1, node |-> 1, track |-> sh.track]>>]

ShadowOf(w, t) ==
  [val |-> w.heap[w.trackers[t].atoms], node |-> w.nodes[w.trackers[t].node],
   track |-> w.trackers[t].track]

\* held and shadow after a call on t that left the trackers new (twin: tw).
HeldAfter(new) ==
  [u \in 1..Len(new) |->
     IF u > Len(trackers) THEN <<new[u].node>>
     ELSE IF new[u].node = trackers[u].node THEN held[u]
     ELSE Append(held[u], new[u].node)]

ShadowAfter(new, t, tw) ==
  [u \in 1..Len(new) |->
     IF u = t THEN ShadowOf(tw.w, 1)
     ELSE IF u <= Len(trackers) THEN shadow[u]
     ELSE IF tw.raised THEN shadow[t]
     ELSE ShadowOf(tw.w, tw.ret)]

SerIdle == [in |-> PyInt(0), out |-> to_aiida_rep(PyInt(0))]

BuiltIdle == [args |-> <<>>, kwargs |-> NoKwargs, out |-> aiida_kwargs(<<>>, NoKwargs)]

\* The state after tracker = AtomsTracker(atoms, track=track), atoms an
\* Atoms object of value s that the caller hands over to the tracker.
Init ==
  \E s \in RawStructures, track \in BOOLEAN :
    LET r == AtomsTracker_init([heap |-> <<s>>, nodes |-> <<>>, trackers |-> <<>>,
                                graph |-> {}], TRUE, 1, 0, track)
    IN  /\ heap = r.w.heap
        /\ nodes = r.w.nodes
        /\ trackers = r.w.trackers
        /\ graph = r.w.graph
        /\ held = <<<<r.w.trackers[r.ret].node>>>>
        /\ shadow = <<[val |-> s, node |-> StructureData(s), track |-> ~track]>>
        /\ last = LastNew(r.ret, s, track)
        /\ ncalls = 0
        /\ ser = SerIdle
        /\ built = BuiltIdle

\* tracker = AtomsTracker(node, track=track) for a node of the store.
ConstructFromNode ==
  \E obj \in 1..Len(nodes), track \in BOOLEAN :
    LET r == AtomsTracker_init(World, FALSE, obj, 0, track)
    IN  /\ ncalls < MaxCalls
        /\ ncalls' = ncalls + 1
        /\ heap' = r.w.heap
        /\ nodes' = r.w.nodes
        /\ trackers' = r.w.trackers
        /\ graph' = r.w.graph
        /\ held' = Append(held, <<obj>>)
        /\ shadow' = Append(shadow, [val |-> get_ase(nodes[obj]), node |-> nodes[obj],
                                     track |-> ~track])
        /\ last' = LastNew(r.ret, get_ase(nodes[obj]), track)
        /\ UNCHANGED <<ser, built>>

\* tracker.op(*args, **kwargs) for an in-place op.
InPlace ==
  \E t \in 1..Len(trackers), call \in InplaceCalls :
    LET r == inplace_inner(World, t, call)
        tw == inplace_inner(ShadowWorld(shadow[t]), 1, call)
    IN  /\ ncalls < MaxCalls
        /\ ncalls' = ncalls + 1
        /\ heap' = r.w.heap
        /\ nodes' = r.w.nodes
        /\ trackers' = r.w.trackers
        /\ graph' = r.w.graph
        /\ held' = HeldAfter(r.w.trackers)
        /\ shadow' = ShadowAfter(r.w.trackers, t, tw)
        /\ last' = Last("inplace", t, call, r, tw.raised)
        /\ UNCHANGED <<ser, built>>

\* tracker.op(*args, **kwargs) for an out-of-place op.
OutOfPlace ==
  \E t \in 1..Len(trackers), call \in OutOfPlaceCalls :
    LET r == outofplace_inner(World, t, call)
        tw == outofplace_inner(ShadowWorld(shadow[t]), 1, call)
    IN  /\ ncalls < MaxCalls
        /\ ncalls' = ncalls + 1
        /\ heap' = r.w.heap
        /\ nodes' = r.w.nodes
        /\ trackers' = r.w.trackers
        /\ graph' = r.w.graph
        /\ held' = HeldAfter(r.w.trackers)
        /\ shadow' = ShadowAfter(r.w.trackers, t, tw)
        /\ last' = Last("outofplace", t, call, r, tw.raised)
        /\ UNCHANGED <<ser, built>>

Next == ConstructFromNode \/ InPlace \/ OutOfPlace

Spec == Init /\ [][Next]_vars

(***************************************************************************)
(* The serializer and the inputs of a call on their own: the state holds   *)
(* one tracker that is never called.                                       *)
(***************************************************************************)
Serialize ==
  \E pobj \in PyValues :
    /\ ser' = [in |-> pobj, out |-> to_aiida_rep(pobj)]
    /\ UNCHANGED <<heap, nodes, trackers, graph, last, held, shadow, ncalls, built>>

BuildInputs ==
  \E p \in 0..MaxArgs, names \in SUBSET KwNames :
    LET args == PositionalArgs(p)
        kwargs == KeywordArgs(names)
    IN  /\ built' = [args |-> args, kwargs |-> kwargs, out |-> aiida_kwargs(args, kwargs)]
        /\ UNCHANGED <<heap, nodes, trackers, graph, last, held, shadow, ncalls, ser>>

NextSer == Serialize \/ BuildInputs

InitSer == Init /\ trackers[1].track /\ heap[1] = [n |-> 1, pos |-> 0, num |-> 1, info |-> 0]

SpecSer == InitSer /\ [][NextSer]_vars

(***************************************************************************)
(* Properties.                                                             *)
(***************************************************************************)
Trackers == 1..Len(trackers)

Live(t) == heap[trackers[t].atoms]

Persisted(t) == nodes[trackers[t].node]

\* The live structure and the node of t represent the same structure.
Same(t) == StructureData(Live(t)) = Persisted(t)

Completed(kind) == last.kind = kind /\ ~last.raised

\* C1: after each completed in-place or out-of-place call, the live
\* structure and the node of the receiver, and of the tracker the call
\* returned, represent the same structure.
C1_LiveMatchesNode ==
  (Completed("inplace") \/ Completed("outofplace")) => Same(last.recv) /\ Same(last.ret)

\* C2: after a completed in-place call the receiver's live structure is
\* what the library's op makes of the live structure as it was before the
\* call, and the op was applied once; with tracking enabled or disabled.
C2_InplaceIsLibraryOp ==
  Completed("inplace") =>
    /\ Live(last.recv) = LibApply(last.call, last.preVal)
    /\ last.applied = 1

\* An untracked and a tracked tracker have both completed in-place calls,
\* the last of which changed the live structure.
C2_Witness ==
  /\ Completed("inplace")
  /\ Live(last.recv) # last.preVal
  /\ \E a, b \in Trackers :
       /\ trackers[a].track /\ ~trackers[b].track
       /\ Len(held[a]) > 1 /\ Len(held[b]) > 1

\* C3: an out-of-place call, completed or not, leaves the receiver with the
\* same Atoms object, of the same value, the same node and the same flag;
\* a completed one returns a tracker that is not the receiver.
C3_OutOfPlaceKeepsReceiver ==
  last.kind = "outofplace" =>
    /\ trackers[last.recv].atoms = last.preObj
    /\ Live(last.recv) = last.preVal
    /\ trackers[last.recv].node = last.preNode
    /\ trackers[last.recv].track = last.preTrack
    /\ ~last.raised => last.ret \in Trackers \ {last.recv}

\* A completed repeat: the result has more atoms than the receiver.
C3_Witness ==
  /\ Completed("outofplace")
  /\ last.call.op = "repeat"
  /\ Live(last.ret).n > Live(last.recv).n
  /\ Live(last.recv).n = last.preVal.n

\* C4: a run and its twin run (the opposite track flags) agree after every
\* step on every tracker's live structure and persisted structure and on
\* which calls raise; a completed call on an untracked receiver adds nothing
\* to the graph, one on a tracked receiver adds one operation, from the
\* receiver's node at call time and the serialized arguments to the new node.
C4_TrackingOnlyRecords ==
  /\ \A t \in Trackers : shadow[t].val = Live(t) /\ shadow[t].node = Persisted(t)
  /\ last.twinRaised = last.raised
  /\ (Completed("inplace") \/ Completed("outofplace")) =>
       last.added =
         IF last.preTrack
         THEN {[name |-> last.call.op, node |-> last.preNode,
                kwargs |-> aiida_kwargs(last.call.args, last.call.kwargs),
                output |-> trackers[last.ret].node]}
         ELSE {}

\* A tracked receiver, whose twin is untracked, completed an in-place call
\* that changed its structure, after an untracked call was made.
C4_Witness ==
  /\ Completed("inplace")
  /\ last.preTrack /\ ~shadow[last.recv].track
  /\ Live(last.recv) # last.preVal
  /\ Cardinality(graph) = 1
  /\ Len(nodes) > 2

\* C5: the class of the node to_aiida_rep returns is that of the first rule,
\* in the order dict, list, tuple, Atoms, float, int, str, ndarray, that the
\* value is an instance of; the node holds the value (a tuple as a list, an
\* array under the name "array") and no warning is emitted; a value no rule
\* matches gives a Str of its text conversion and one warning.
C5_Rules ==
  <<<<"dict", "Dict">>, <<"list", "List">>, <<"tuple", "List">>,
    <<"Atoms", "StructureData">>, <<"float", "Float">>, <<"int", "Int">>,
    <<"str", "Str">>, <<"ndarray", "ArrayData">>>>

C6_InplaceAtomic ==
  last.kind = "inplace" =>
    IF last.raised
    THEN Live(last.recv) = last.preVal /\ trackers[last.recv].node = last.preNode
    ELSE Live(last.recv) = LibApply(last.call, last.preVal)
         /\ trackers[last.recv].node # last.preNode

\* C7: a completed in-place call returns the receiver, whose node is a node
\* created by the call and not the node it held; the nodes a tracker holds
\* in succession are pairwise distinct.
C7_InplaceNewNode ==
  /\ Completed("inplace") =>
       /\ last.ret = last.recv
       /\ trackers[last.recv].node # last.preNode
       /\ trackers[last.recv].node > last.nodesBefore
  /\ \A t \in Trackers :
       /\ held[t][Len(held[t])] = trackers[t].node
       /\ \A i, j \in 1..Len(held[t]) : i # j => held[t][i] # held[t][j]

\* A tracker after two completed in-place calls: it has held three nodes.
C7_Witness ==
  /\ Completed("inplace")
  /\ Len(held[last.recv]) = 3

\* C8: the inputs built for a call hold one entry per argument, the i-th
\* positional argument under arg_ and i in two digits, each keyword
\* argument under its name.
C8_EntryPerArgument ==
  /\ Cardinality(DOMAIN built.out) = Len(built.args) + Cardinality(DOMAIN built.kwargs)
  /\ \A i \in 1..Len(built.args) :
       /\ ArgLabel(i - 1) \in DOMAIN built.out
       /\ built.out[ArgLabel(i - 1)] = to_aiida_rep(built.args[i])
       /\ Len(ArgLabel(i - 1)) >= 6
  /\ \A k \in DOMAIN built.kwargs :
       k \in DOMAIN built.out /\ built.out[k] = to_aiida_rep(built.kwargs[k])

\* What an out-of-place call on t would return: the structure of the new
\* tracker and of its node.
C9_Result(t, call) ==
  LET r == outofplace_inner(World, t, call)
  IN  IF r.raised THEN <<"raised">>
      ELSE <<"returned", r.w.heap[r.w.trackers[r.ret].atoms],
             r.w.nodes[r.w.trackers[r.ret].node]>>

\* C9: the result of a completed out-of-place call is the library's op
\* applied to a snapshot of the receiver's node; receivers whose nodes hold
\* equal structures get equal results, whatever their live structures; an
\* in-place call acts on the live structure.
C9_OutOfPlaceReadsNode ==
  /\ Completed("outofplace") =>
       Live(last.ret) = LibApply(last.call, get_ase(nodes[last.preNode]))
  /\ \A a, b \in Trackers : \A call \in OutOfPlaceCalls :
       Persisted(a) = Persisted(b) => C9_Result(a, call) = C9_Result(b, call)
  /\ Completed("inplace") => Live(last.recv) = LibApply(last.call, last.preVal)

\* A completed out-of-place call on a receiver whose live structure is not
\* what its node gives back, beside a tracker of an equal node whose live
\* structure differs.
C9_Witness ==
  /\ Completed("outofplace")
  /\ last.preVal # get_ase(nodes[last.preNode])
  /\ Live(last.ret) # LibApply(last.call, last.preVal)
  /\ \E b \in Trackers : Persisted(b) = Persisted(last.recv) /\ Live(b) # Live(last.recv)

\* C10: no call changes the flag of an existing tracker, and the tracker a
\* completed out-of-place call returns has the flag set.
C10_FlagFixed ==
  [][/\ \A t \in Trackers : trackers'[t].track = trackers[t].track
     /\ (last'.kind = "outofplace" /\ ~last'.raised) => trackers'[last'.ret].track]_vars

\* An untracked receiver returned a tracked tracker and is still untracked.
C10_Witness ==
  /\ Completed("outofplace")
  /\ ~last.preTrack
  /\ ~trackers[last.recv].track
  /\ trackers[last.ret].track

==========================================================================
